---- MODULE Spec2Model ----
\* State-machine model of the client data cache layer:
\*   useCachedData (the cached-fetch controller hook) and DataCache (the
\*   keyed store with expiry), both in src/src/components/Navbar.jsx,
\* and of the views of the two list pages, StoredItemsPage
\* (src/src/pages/StoredItemsPage.jsx) and ImportantDocumentsPage
\* (src/unnamed/part_000): timeline and category grouping, the recency flag,
\* filter and search, and the debounced suggestions.
EXTENDS Integers, Sequences, FiniteSets

VARIABLES data, loading, error, lastFetchTime, cachedData, mounted,
          calls, invalidations, now, cache, timestamps, lastOp, prevOp, lastSet

\* StoredItemsPage / ImportantDocumentsPage: the timeline view
VARIABLES page, records, recordsId, wall, memo, shown

\* the category view (items) / type view (documents): the list that is
\* grouped and the groups the view emits
VARIABLES listing, grouped

groupVars == <<listing, grouped>>

\* ImportantDocumentsPage: the documents, the type filter and the list that
\* is shown; the search text
VARIABLES documents, filterType, filteredDocuments, searchQuery

filterVars == <<documents, filterType, filteredDocuments>>

\* ImportantDocumentsPage, suggestions: the pending timeouts, the requests
\* awaiting their response, the suggestion state; changes counts the changes
\* of searchQuery, changedAt is the time of the latest one, burst the number
\* of changes that followed each other within the debounce delay, and
\* fetched lists the calls of getDocumentSuggestions; event is the latest
\* event of the search box, picked holds from the selection of a suggestion
\* to the next typed change
VARIABLES timers, inflight, suggestions, showSuggestions, loadingSuggestions,
          changes, changedAt, burst, fetched, event, picked

suggestVars == <<timers, inflight, suggestions, showSuggestions, loadingSuggestions, changes, changedAt, burst, fetched, event, picked>>

\* ImportantDocumentsPage and its backend: the stored documents, the hook's
\* data and loading flag as the page sees them, the calls of getAllDocuments
\* and deleteDocument awaiting their response, the documents a successful
\* delete has removed from the list, and the number of documents ever added
VARIABLES server, cachedDocs, cacheLoading, fetches, deletes, removed, added

syncVars == <<server, cachedDocs, cacheLoading, fetches, deletes, removed, added>>
viewVars == <<groupVars, filterVars, searchQuery, suggestVars, syncVars>>

\* the variables of the page components
pageVars == <<page, records, recordsId, wall, memo, shown, viewVars>>

ctlVars == <<data, loading, error, lastFetchTime, cachedData, mounted, calls, invalidations>>
cacheVars == <<cache, timestamps, lastOp, prevOp, lastSet>>
vars == <<data, loading, error, lastFetchTime, cachedData, mounted, calls, invalidations, now, cache, timestamps, lastOp, prevOp, lastSet, pageVars>>

\* ---------------------------------------------------------------- bounds
\* cache time-to-live of the controller, in clock ticks
cacheTime == 2
\* invocations of fetchData per run
MaxCalls == 2
\* calls of invalidateCache per run
MaxInvalidations == 1
\* clock ticks per run
MaxElapsed == 2
\* largest ttl handed to DataCache.set
MaxTtl == 2
\* records in the list a page holds
MaxRecords == 3
\* minutes the wall clock of a page advances per run
MaxMinutes == 2
\* records in the list a category or type view is given
MaxListed == 3
\* documents in the list of the documents page
MaxDocs == 2
\* changes of the search text per run
MaxChanges == 3
\* ticks of 50 ms per run
MaxClock == 6
\* documents added per run
MaxAdded == 2

\* ------------------------------------------------------- JavaScript values
Null == "null"
Undefined == "undefined"
\* the arrays a fetch can deliver (an array is truthy even when empty)
Data == {"d1", "d2"}
DefaultError == "Failed to fetch data"
ServerError == "server error"
NetworkError == "network down"
TypeErrorMessage == "Cannot read properties of undefined"
\* the rejected promise of an async function whose body threw
Rejected == "rejected"

\* JS truthiness of the values that occur here
Truthy(v) == v \notin {Null, Undefined, ""}

\* a || b
OrElse(a, b) == IF Truthy(a) THEN a ELSE b

\* Date.now() is far beyond any ttl, so the clock starts past cacheTime
StartTime == cacheTime + 1
EndTime == StartTime + MaxElapsed

\* ------------------------------------------------- the wrapped operation
\* What `await fetchFunction()` can deliver: a {success, data, error} result,
\* a result that is not an object at all, or a thrown value (an Error, a
\* value without a message such as a string, or null/undefined).
Responses ==
    [kind : {"result"}, success : {TRUE}, data : Data, error : {Undefined}]
    \cup [kind : {"result"}, success : {FALSE}, data : {Undefined}, error : {Undefined, ServerError}]
    \cup [kind : {"malformed"}, success : {FALSE}, data : {Undefined}, error : {Undefined}]
    \cup [kind : {"throwError"}, success : {FALSE}, data : {Undefined}, error : {NetworkError}]
    \cup [kind : {"throwString"}, success : {FALSE}, data : {Undefined}, error : {Undefined}]
    \cup [kind : {"throwNullish"}, success : {FALSE}, data : {Undefined}, error : {Undefined}]

\* the value that reaches `catch (err)`: "Error" objects carry a message
Thrown(r) ==
    CASE r.kind = "result" -> [type |-> "Error", message |-> OrElse(r.error, DefaultError)]
      [] r.kind = "malformed" -> [type |-> "Error", message |-> TypeErrorMessage]
      [] r.kind = "throwError" -> [type |-> "Error", message |-> r.error]
      [] r.kind = "throwString" -> [type |-> "string", message |-> Undefined]
      [] OTHER -> [type |-> "nullish", message |-> Undefined]

\* ------------------------------------------------------- useCachedData
\* the freshness test with its comparison turned round
UseCacheInverted(force, t) ==
    ~force /\ Truthy(cachedData) /\ (t - lastFetchTime) > cacheTime

\* the freshness test without its `!force`
UseCacheNoForce(force, t) ==
    Truthy(cachedData) /\ (t - lastFetchTime) < cacheTime

\* the freshness test of fetchData
UseCache(force, t) ==
    ~force /\ Truthy(cachedData) /\ (t - lastFetchTime) < cacheTime

\* one record per invocation of fetchData, in issue order: its argument, the
\* `now` it captured, how it ended and what its promise resolved to; inv and
\* fresh record what the invocation found (the invalidations so far, and
\* whether a cached value younger than cacheTime was present)
Call(force, t, status, ret) ==
    [force |-> force, at |-> t, status |-> status, ret |-> ret, inv |-> invalidations,
     fresh |-> (cachedData \in Data /\ t - lastFetchTime < cacheTime)]

\* fetchData(force) up to its first await
FetchData(force) ==
    /\ Len(calls) < MaxCalls
    /\ IF UseCache(force, now)
       THEN /\ data' = cachedData
            /\ loading' = FALSE
            /\ calls' = Append(calls, Call(force, now, "hit", cachedData))
            /\ UNCHANGED error
       ELSE /\ loading' = TRUE
            /\ error' = Null
            /\ calls' = Append(calls, Call(force, now, "pending", Undefined))
            /\ UNCHANGED data
    /\ UNCHANGED <<lastFetchTime, cachedData, invalidations>>

\* the mount effect: the initial fetch
Mount ==
    /\ ~mounted
    /\ mounted' = TRUE
    /\ FetchData(FALSE)
    /\ UNCHANGED <<now, cache, timestamps, lastOp, prevOp, lastSet, pageVars>>

\* the effect running again (fetchData's identity changed)
Refetch ==
    /\ mounted
    /\ FetchData(FALSE)
    /\ UNCHANGED <<mounted, now, cache, timestamps, lastOp, prevOp, lastSet, pageVars>>

Refresh ==
    /\ mounted
    /\ FetchData(TRUE)
    /\ UNCHANGED <<mounted, now, cache, timestamps, lastOp, prevOp, lastSet, pageVars>>

\* invalidateCache without the reset of lastFetchTime
InvalidateCacheKeepsTime ==
    /\ mounted
    /\ invalidations < MaxInvalidations
    /\ cachedData' = Null
    /\ invalidations' = invalidations + 1
    /\ UNCHANGED <<lastFetchTime, data, loading, error, mounted, calls, now, cache, timestamps, lastOp, prevOp, lastSet, pageVars>>

InvalidateCache ==
    /\ mounted
    /\ invalidations < MaxInvalidations
    /\ cachedData' = Null
    /\ lastFetchTime' = 0
    /\ invalidations' = invalidations + 1
    /\ UNCHANGED <<data, loading, error, mounted, calls, now, cache, timestamps, lastOp, prevOp, lastSet, pageVars>>

\* fetchData storing the time of the response as the timestamp
ResolveStampsArrival(i, r) ==
    /\ calls[i].status = "pending"
    /\ loading' = FALSE
    /\ IF r.kind = "result" /\ r.success
       THEN /\ cachedData' = r.data
            /\ lastFetchTime' = now
            /\ data' = r.data
            /\ calls' = [calls EXCEPT ![i].status = "ok", ![i].ret = r.data]
            /\ UNCHANGED error
       ELSE /\ IF Thrown(r).type = "nullish"
               THEN /\ calls' = [calls EXCEPT ![i].status = "rejected", ![i].ret = Rejected]
                    /\ UNCHANGED error
               ELSE /\ error' = Thrown(r).message
                    /\ calls' = [calls EXCEPT ![i].status = "failed", ![i].ret = Null]
            /\ UNCHANGED <<cachedData, lastFetchTime, data>>
    /\ UNCHANGED <<mounted, invalidations, now, cache, timestamps, lastOp, prevOp, lastSet, pageVars>>

\* fetchData from its await to its return, for call i receiving r
Resolve(i, r) ==
    /\ calls[i].status = "pending"
    /\ loading' = FALSE
    /\ IF r.kind = "result" /\ r.success
       THEN /\ cachedData' = r.data
            /\ lastFetchTime' = calls[i].at
            /\ data' = r.data
            /\ calls' = [calls EXCEPT ![i].status = "ok", ![i].ret = r.data]
            /\ UNCHANGED error
       ELSE /\ IF Thrown(r).type = "nullish"
               THEN /\ calls' = [calls EXCEPT ![i].status = "rejected", ![i].ret = Rejected]
                    /\ UNCHANGED error
               ELSE /\ error' = Thrown(r).message
                    /\ calls' = [calls EXCEPT ![i].status = "failed", ![i].ret = Null]
            /\ UNCHANGED <<cachedData, lastFetchTime, data>>
    /\ UNCHANGED <<mounted, invalidations, now, cache, timestamps, lastOp, prevOp, lastSet, pageVars>>

Settle ==
    \E i \in 1..Len(calls) : \E r \in Responses : Resolve(i, r)

\* Date.now() advancing
Tick ==
    /\ now < EndTime
    /\ now' = now + 1
    /\ UNCHANGED <<data, loading, error, lastFetchTime, cachedData, mounted, calls, invalidations, cache, timestamps, lastOp, prevOp, lastSet, pageVars>>

\* ------------------------------------------------------------ DataCache
Keys == {"items", "docs"}
Values == {"v1", "v2"}

\* Map.prototype.set / delete / has on a map kept as a function on its keys
MapSet(m, k, v) == [x \in (DOMAIN m) \cup {k} |-> IF x = k THEN v ELSE m[x]]
MapDelete(m, k) == [x \in (DOMAIN m) \ {k} |-> m[x]]
MapHas(m, k) == k \in DOMAIN m
EmptyMap == [x \in {} |-> Undefined]

\* an operation performed on the store and what it returned; lastOp is the
\* latest one and prevOp the one before it (a clock tick counts as one)
Op(op, k, v, ttl, ret) == [op |-> op, key |-> k, value |-> v, ttl |-> ttl, ret |-> ret]

\* lastSet[k] remembers the ttl and the clock value of the latest set(k, ...)
NeverSet == [ttl |-> -1, at |-> 0]

\* set storing the ttl alone as the expiry
CacheSetNoNow(k, v, ttl) ==
    /\ cache' = MapSet(cache, k, v)
    /\ timestamps' = MapSet(timestamps, k, ttl)
    /\ lastOp' = Op("set", k, v, ttl, Undefined)
    /\ prevOp' = lastOp
    /\ lastSet' = [lastSet EXCEPT ![k] = [ttl |-> ttl, at |-> now]]
    /\ UNCHANGED <<now, data, loading, error, lastFetchTime, cachedData, mounted, calls, invalidations, pageVars>>

\* set(key, data, ttl)
CacheSet(k, v, ttl) ==
    /\ cache' = MapSet(cache, k, v)
    /\ timestamps' = MapSet(timestamps, k, now + ttl)
    /\ lastOp' = Op("set", k, v, ttl, Undefined)
    /\ prevOp' = lastOp
    /\ lastSet' = [lastSet EXCEPT ![k] = [ttl |-> ttl, at |-> now]]
    /\ UNCHANGED <<now, data, loading, error, lastFetchTime, cachedData, mounted, calls, invalidations, pageVars>>

\* get's test without the comparison with the clock
ExpiredNoClock(k) ==
    \/ ~MapHas(timestamps, k)
    \/ timestamps[k] = 0

\* get's test with >= for >
ExpiredAtExpiry(k) ==
    \/ ~MapHas(timestamps, k)
    \/ timestamps[k] = 0
    \/ now >= timestamps[k]

\* get's test `!expiry || Date.now() > expiry`
Expired(k) ==
    \/ ~MapHas(timestamps, k)
    \/ timestamps[k] = 0
    \/ now > timestamps[k]

\* get(key)
CacheGet(k) ==
    /\ prevOp' = lastOp
    /\ UNCHANGED lastSet
    /\ IF Expired(k)
       THEN /\ cache' = MapDelete(cache, k)
            /\ timestamps' = MapDelete(timestamps, k)
            /\ lastOp' = Op("get", k, Undefined, 0, Null)
       ELSE /\ lastOp' = Op("get", k, Undefined, 0, IF MapHas(cache, k) THEN cache[k] ELSE Undefined)
            /\ UNCHANGED <<cache, timestamps>>
    /\ UNCHANGED <<now, data, loading, error, lastFetchTime, cachedData, mounted, calls, invalidations, pageVars>>

\* invalidate deleting the value and leaving its expiry
CacheInvalidateValueOnly(k) ==
    /\ cache' = MapDelete(cache, k)
    /\ lastOp' = Op("invalidate", k, Undefined, 0, Undefined)
    /\ prevOp' = lastOp
    /\ UNCHANGED <<timestamps, lastSet>>
    /\ UNCHANGED <<now, data, loading, error, lastFetchTime, cachedData, mounted, calls, invalidations, pageVars>>

\* invalidate(key)
CacheInvalidate(k) ==
    /\ cache' = MapDelete(cache, k)
    /\ timestamps' = MapDelete(timestamps, k)
    /\ lastOp' = Op("invalidate", k, Undefined, 0, Undefined)
    /\ prevOp' = lastOp
    /\ UNCHANGED lastSet
    /\ UNCHANGED <<now, data, loading, error, lastFetchTime, cachedData, mounted, calls, invalidations, pageVars>>

\* clear()
CacheClear ==
    /\ cache' = EmptyMap
    /\ timestamps' = EmptyMap
    /\ lastOp' = Op("clear", Null, Undefined, 0, Undefined)
    /\ prevOp' = lastOp
    /\ UNCHANGED lastSet
    /\ UNCHANGED <<now, data, loading, error, lastFetchTime, cachedData, mounted, calls, invalidations, pageVars>>

\* Date.now() advancing between two operations on the store
CacheTick ==
    /\ now < EndTime
    /\ now' = now + 1
    /\ lastOp' = Op("tick", Null, Undefined, 0, Undefined)
    /\ prevOp' = lastOp
    /\ UNCHANGED <<cache, timestamps, lastSet, data, loading, error, lastFetchTime, cachedData, mounted, calls, invalidations, pageVars>>

CacheSetAny ==
    \E k \in Keys : \E v \in Values : \E ttl \in 0..MaxTtl : CacheSet(k, v, ttl)

CacheGetAny ==
    \E k \in Keys : CacheGet(k)

CacheInvalidateAny ==
    \E k \in Keys : CacheInvalidate(k)

\* ------------------------------------------- the pages: timeline, recency
\* Times are minutes; a record's created_at and the wall clock are instants
\* read in local time, new Date(y, m, d) keeps the calendar day of one.
MinutesPerDay == 1440
FiveMinutes == 5
DayOf(t) == t \div MinutesPerDay

\* the wall clock starts one minute before a midnight
WallStart == 10 * MinutesPerDay + (MinutesPerDay - 1)
WallEnd == WallStart + MaxMinutes

\* created_at of the records: a minute ahead of the wall clock (on the next
\* calendar day), 4 and 5 minutes ago, and 1, 7 and 8 days ago
CreatedTimes ==
    {WallStart + 1, WallStart - 4, WallStart - 5,
     WallStart - MinutesPerDay, WallStart - 7 * MinutesPerDay, WallStart - 8 * MinutesPerDay}

\* the lists a page can hold: record i of a list has id i
RecordLists ==
    UNION {[1..n -> CreatedTimes] : n \in 0..MaxRecords}
MakeRecords(cs) == [i \in 1..Len(cs) |-> [id |-> i, created |-> cs[i]]]

\* getTimelineGroup returning a label the order list does not hold
GetTimelineGroupThisWeek(created, t) ==
    LET today == DayOf(t)
        itemDate == DayOf(created)
    IN  IF itemDate = today THEN "Today"
        ELSE IF itemDate = today - 1 THEN "Yesterday"
        ELSE IF itemDate >= today - 7 THEN "This Week"
        ELSE "Earlier"

\* getTimelineGroup(dateString) at wall clock t
GetTimelineGroup(created, t) ==
    LET today == DayOf(t)
        yesterday == today - 1
        lastWeek == today - 7
        itemDate == DayOf(created)
    IN  IF itemDate = today THEN "Today"
        ELSE IF itemDate = yesterday THEN "Yesterday"
        ELSE IF itemDate >= lastWeek THEN "Last 7 Days"
        ELSE "Earlier"

\* Array.prototype.sort((a, b) => new Date(b.created_at) - new Date(a.created_at)):
\* newest first, records of equal date in their order (the sort is stable)
RECURSIVE InsertDesc(_, _)
InsertDesc(r, sorted) ==
    IF sorted = <<>> THEN <<r>>
    ELSE IF Head(sorted).created >= r.created
         THEN <<Head(sorted)>> \o InsertDesc(r, Tail(sorted))
         ELSE <<r>> \o sorted

RECURSIVE SortDesc(_)
SortDesc(list) ==
    IF list = <<>> THEN <<>>
    ELSE InsertDesc(list[Len(list)], SortDesc(SubSeq(list, 1, Len(list) - 1)))

\* const order = ['Today', 'Yesterday', 'Last 7 Days', 'Earlier']
Order == <<"Today", "Yesterday", "Last 7 Days", "Earlier">>

\* the records of the list that getTimelineGroup puts under label (the reduce)
GroupFor(list, t, label) ==
    SelectSeq(list, LAMBDA r : GetTimelineGroup(r.created, t) = label)

\* order.filter(key => groups[key]?.length > 0).map(...) from position n on
RECURSIVE EmitGroups(_, _, _)
EmitGroups(list, t, n) ==
    IF n > Len(Order) THEN <<>>
    ELSE LET g == GroupFor(list, t, Order[n])
         IN  (IF Len(g) > 0 THEN <<[groupName |-> Order[n], items |-> SortDesc(g)]>> ELSE <<>>)
             \o EmitGroups(list, t, n + 1)

\* the body of the timelineGroups memo
TimelineGroups(list, t) ==
    IF Len(list) = 0 THEN <<>> ELSE EmitGroups(list, t, 1)

\* isRecentlyAdded: `diffMinutes <= 5` on the items page,
\* `(now - addedTime) < fiveMinutes` on the documents page
IsRecentlyAdded(p, created, t) ==
    IF p = "items" THEN (t - created) <= FiveMinutes
    ELSE (t - created) < FiveMinutes

\* useMemo(..., [items]) keeps its value while the items array is the same
\* object; useMemo(..., [filteredDocuments]) never does, filteredDocuments
\* being a new array in every render
MemoKept == page = "items" /\ memo.deps = recordsId

NoMemo == [deps |-> -1, at |-> 0, groups |-> <<>>]
NotShown == [id |-> -1, at |-> 0, timeline |-> <<>>, recent |-> {}]

\* a render of the page with the timeline view
Render ==
    /\ memo' = IF MemoKept THEN memo
               ELSE [deps |-> recordsId, at |-> wall, groups |-> TimelineGroups(records, wall)]
    /\ shown' = [id |-> recordsId, at |-> wall, timeline |-> memo'.groups,
                 recent |-> {records[i].id : i \in {j \in 1..Len(records) :
                                 IsRecentlyAdded(page, records[j].created, wall)}}]
    /\ UNCHANGED <<page, records, recordsId, wall, viewVars, now, ctlVars, cacheVars>>

\* handleDelete after a successful delete: setItems(items.filter(...))
RemoveRecord(i) ==
    /\ records' = SelectSeq(records, LAMBDA r : r.id # records[i].id)
    /\ recordsId' = recordsId + 1
    /\ UNCHANGED <<page, wall, memo, shown, viewVars, now, ctlVars, cacheVars>>

RemoveAny ==
    \E i \in 1..Len(records) : RemoveRecord(i)

\* the wall clock advancing by a minute
PassMinute ==
    /\ wall < WallEnd
    /\ wall' = wall + 1
    /\ UNCHANGED <<page, records, recordsId, memo, shown, viewVars, now, ctlVars, cacheVars>>

\* -------------------------------------------------------------- strings
\* A string is the sequence of its characters.
LowerCase ==
    <<"a", "b", "c", "d", "e", "f", "g", "h", "i", "j", "k", "l", "m",
      "n", "o", "p", "q", "r", "s", "t", "u", "v", "w", "x", "y", "z">>
UpperCase ==
    <<"A", "B", "C", "D", "E", "F", "G", "H", "I", "J", "K", "L", "M",
      "N", "O", "P", "Q", "R", "S", "T", "U", "V", "W", "X", "Y", "Z">>
IsUpper(c) == \E i \in 1..Len(UpperCase) : UpperCase[i] = c
IsLetter(c) == IsUpper(c) \/ \E i \in 1..Len(LowerCase) : LowerCase[i] = c
LetterIndex(c) == CHOOSE i \in 1..Len(LowerCase) : LowerCase[i] = c \/ UpperCase[i] = c

\* String.prototype.toLowerCase
ToLowerCaseChar(c) == IF IsUpper(c) THEN LowerCase[LetterIndex(c)] ELSE c
ToLowerCase(s) == [i \in 1..Len(s) |-> ToLowerCaseChar(s[i])]

\* String.prototype.trim
RECURSIVE TrimStart(_)
TrimStart(s) == IF s # <<>> /\ Head(s) = " " THEN TrimStart(Tail(s)) ELSE s
RECURSIVE TrimEnd(_)
TrimEnd(s) ==
    IF s # <<>> /\ s[Len(s)] = " " THEN TrimEnd(SubSeq(s, 1, Len(s) - 1)) ELSE s
Trim(s) == TrimEnd(TrimStart(s))

\* String.prototype.localeCompare in the default collation: strings are
\* ordered by their letters whatever the case, the space before every letter;
\* strings with the same letters are ordered by the first difference of case,
\* the lower-case letter first
Weight(c) == IF IsLetter(c) THEN LetterIndex(c) ELSE 0
RECURSIVE Primary(_, _)
Primary(a, b) ==
    IF a = <<>> THEN (IF b = <<>> THEN 0 ELSE -1)
    ELSE IF b = <<>> THEN 1
    ELSE IF Weight(Head(a)) < Weight(Head(b)) THEN -1
    ELSE IF Weight(Head(a)) > Weight(Head(b)) THEN 1
    ELSE Primary(Tail(a), Tail(b))
RECURSIVE Tertiary(_, _)
Tertiary(a, b) ==
    IF a = <<>> THEN 0
    ELSE IF Head(a) = Head(b) THEN Tertiary(Tail(a), Tail(b))
    ELSE IF IsUpper(Head(b)) THEN -1
    ELSE 1
LocaleCompare(a, b) == IF Primary(a, b) # 0 THEN Primary(a, b) ELSE Tertiary(a, b)

\* ------------------------------------ the pages: category and type views
\* item.category / doc.document_type: a string, or no value at all
Absent == [kind |-> Undefined, text |-> <<>>]
Str(s) == [kind |-> "string", text |-> s]

Uncategorized == <<"U", "n", "c", "a", "t", "e", "g", "o", "r", "i", "z", "e", "d">>
Other == <<"o", "t", "h", "e", "r">>

\* the values of the field: absent, empty, blank, and names that differ by
\* case or by surrounding spaces only
FieldValues ==
    {Absent, Str(<<>>), Str(<<" ">>), Str(<<"b">>), Str(<<"B">>),
     Str(<<" ", "b", " ">>), Str(<<"a">>)}

\* the lists a view can be given: record i of a list has id i
FieldLists ==
    UNION {[1..n -> FieldValues] : n \in 0..MaxListed}
MakeListing(fs) == [i \in 1..Len(fs) |-> [id |-> i, category |-> fs[i]]]

\* `item.category?.trim() || 'Uncategorized'` on the items page,
\* `doc.document_type || 'other'` on the documents page
GroupKey(p, f) ==
    IF p = "items"
    THEN IF f.kind = "string" /\ Trim(f.text) # <<>> THEN Trim(f.text) ELSE Uncategorized
    ELSE IF f.kind = "string" /\ f.text # <<>> THEN f.text ELSE Other

\* the reduce over the first n records: an object whose keys are in the
\* order of their first insertion (none of the keys is an array index)
RECURSIVE Categories(_, _, _)
Categories(list, p, n) ==
    IF n = 0 THEN <<>>
    ELSE LET acc == Categories(list, p, n - 1)
             key == GroupKey(p, list[n].category)
         IN  IF \E i \in 1..Len(acc) : acc[i].name = key
             THEN [i \in 1..Len(acc) |->
                     IF acc[i].name = key
                     THEN [acc[i] EXCEPT !.ids = Append(@, list[n].id)]
                     ELSE acc[i]]
             ELSE Append(acc, [name |-> key, ids |-> <<list[n].id>>])

\* Object.entries(categories).sort(([a], [b]) => a.localeCompare(b))
RECURSIVE InsertByName(_, _)
InsertByName(g, sorted) ==
    IF sorted = <<>> THEN <<g>>
    ELSE IF LocaleCompare(g.name, Head(sorted).name) < 0 THEN <<g>> \o sorted
    ELSE <<Head(sorted)>> \o InsertByName(g, Tail(sorted))
RECURSIVE SortByName(_)
SortByName(gs) ==
    IF gs = <<>> THEN <<>>
    ELSE InsertByName(gs[Len(gs)], SortByName(SubSeq(gs, 1, Len(gs) - 1)))

\* groupedItems: the categories sorted by name
GroupedItems(list) ==
    IF list = <<>> THEN <<>> ELSE SortByName(Categories(list, "items", Len(list)))

\* Object.entries(groupedDocuments) of the type view: the types as inserted
GroupedDocuments(list) == Categories(list, "docs", Len(list))

Grouped(p, list) == IF p = "items" THEN GroupedItems(list) ELSE GroupedDocuments(list)

\* the records, the clock and the timeline of a page
timeVars == <<records, recordsId, wall, memo, shown>>

\* the effect that follows a load: setItems(cachedItems) / setDocuments(cachedDocs),
\* and the render it causes; a load delivers any list, so the loads into an
\* empty view already produce every list a later reload could
SetListing(fs) ==
    /\ listing = <<>>
    /\ listing' = MakeListing(fs)
    /\ grouped' = Grouped(page, listing')
    /\ UNCHANGED <<page, timeVars, filterVars, searchQuery, suggestVars, syncVars, now, ctlVars, cacheVars>>

LoadListing ==
    \E fs \in FieldLists : SetListing(fs)

\* handleDelete after a successful delete, and the render it causes
DeleteListed(i) ==
    /\ listing' = SelectSeq(listing, LAMBDA r : r.id # listing[i].id)
    /\ grouped' = Grouped(page, listing')
    /\ UNCHANGED <<page, timeVars, filterVars, searchQuery, suggestVars, syncVars, now, ctlVars, cacheVars>>

DeleteAnyListed ==
    \E i \in 1..Len(listing) : DeleteListed(i)

\* ------------------------------- the documents page: filter and search
\* String.prototype.includes
Includes(s, q) ==
    \E i \in 0..(Len(s) - Len(q)) : SubSeq(s, i + 1, i + Len(q)) = q

\* the documents of the page: record i of a list has id i; a type is one of
\* the values of the type selector, compared as a whole
CarKeys ==
    [document_name |-> <<"C", "a", "r", " ", "K", "e", "y", "s">>,
     notes |-> Str(<<"s", "p", "a", "r", "e">>), document_type |-> "vehicle"]
Passport ==
    [document_name |-> <<"P", "a", "s", "s", "p", "o", "r", "t">>,
     notes |-> Absent, document_type |-> "id"]
KeyCard ==
    [document_name |-> <<"k", "e", "y", "s">>,
     notes |-> Str(<<>>), document_type |-> "id"]
Receipt ==
    [document_name |-> <<"R", "e", "c", "e", "i", "p", "t">>,
     notes |-> Str(<<"i", "n", " ", "W", "a", "l", "l", "e", "t">>), document_type |-> "other"]
DocPool == {CarKeys, Passport, KeyCard, Receipt}
\* the documents getDocumentSuggestions can deliver
SuggestedDocs == {CarKeys, KeyCard}
DocLists ==
    UNION {[1..n -> DocPool] : n \in 0..MaxDocs}
MakeDocuments(ds) ==
    [i \in 1..Len(ds) |->
        [id |-> i, document_name |-> ds[i].document_name,
         notes |-> ds[i].notes, document_type |-> ds[i].document_type]]

\* the values of the filter selector and the texts typed into the search box
FilterTypes == {"all", "id", "vehicle"}
Queries ==
    {<<>>, <<"k">>, <<"K", "E", "Y">>, <<"k", "e", "y", "s">>,
     <<"s", "p", "a", "r", "e">>, <<"w", "a", "l", "l", "e", "t">>}

\* matchesSearch with the query compared as typed
MatchesSearchAsTyped(doc, q) ==
    \/ q = <<>>
    \/ Includes(ToLowerCase(doc.document_name), q)
    \/ /\ doc.notes.kind = "string" /\ doc.notes.text # <<>>
       /\ Includes(ToLowerCase(doc.notes.text), q)

\* matchesType and matchesSearch of the filter
MatchesType(doc, ft) == ft = "all" \/ doc.document_type = ft
MatchesSearch(doc, q) ==
    \/ q = <<>>
    \/ Includes(ToLowerCase(doc.document_name), ToLowerCase(q))
    \/ /\ doc.notes.kind = "string" /\ doc.notes.text # <<>>
       /\ Includes(ToLowerCase(doc.notes.text), ToLowerCase(q))

\* filteredDocuments
FilteredDocuments(docs, ft, q) ==
    SelectSeq(docs, LAMBDA doc : MatchesType(doc, ft) /\ MatchesSearch(doc, q))

\* ---------------------------- the documents page: debounced suggestions
\* Time is counted in ticks of 50 ms: setTimeout(fetchSuggestions, 150)
DebounceDelay == 3

\* a timeout runs as soon as it is due: nothing else happens at a moment
\* when one is
TimerDue == \E t \in timers : t.due <= now

\* the timeout set by the effect run that change number n caused; by tells
\* what made the change: the mount, typing, or the selection of a suggestion
NewTimer(q, n, by) ==
    [query |-> q, set |-> now, due |-> now + DebounceDelay, change |-> n, by |-> by]

\* the ghost record of a change of searchQuery
NoteChange ==
    /\ changes' = changes + 1
    /\ changedAt' = now
    /\ burst' = IF changes > 0 /\ now - changedAt < DebounceDelay THEN burst + 1 ELSE 1

\* setSearchQuery(q) without the cleanup of the previous effect run
SetSearchQueryNoCleanup(q) ==
    /\ documents # <<>>
    /\ q # searchQuery
    /\ changes < MaxChanges
    /\ ~TimerDue
    /\ searchQuery' = q
    /\ filteredDocuments' = FilteredDocuments(documents, filterType, q)
    /\ timers' = timers \cup {NewTimer(q, changes + 1, "type")}
    /\ NoteChange
    /\ event' = "type"
    /\ picked' = FALSE
    /\ UNCHANGED <<documents, filterType, inflight, suggestions, showSuggestions,
                   loadingSuggestions, fetched>>
    /\ UNCHANGED <<page, timeVars, groupVars, syncVars, now, ctlVars, cacheVars>>

\* onChange of the search box, which is rendered while the page has
\* documents: setSearchQuery(q), the render that follows (filteredDocuments)
\* and the effect on [searchQuery]: the cleanup of the previous run clears
\* its timeout, the new run sets one
SetSearchQuery(q) ==
    /\ documents # <<>>
    /\ q # searchQuery
    /\ changes < MaxChanges
    /\ ~TimerDue
    /\ searchQuery' = q
    /\ filteredDocuments' = FilteredDocuments(documents, filterType, q)
    /\ timers' = {t \in timers : t.change # changes} \cup {NewTimer(q, changes + 1, "type")}
    /\ NoteChange
    /\ event' = "type"
    /\ picked' = FALSE
    /\ UNCHANGED <<documents, filterType, inflight, suggestions, showSuggestions,
                   loadingSuggestions, fetched>>
    /\ UNCHANGED <<page, timeVars, groupVars, syncVars, now, ctlVars, cacheVars>>

TypeQuery ==
    \E q \in Queries : SetSearchQuery(q)

\* the timeout running fetchSuggestions up to its await; the closure holds
\* the searchQuery of the effect run that set the timeout
TimerFire(t) ==
    /\ t.due <= now
    /\ timers' = timers \ {t}
    /\ IF Len(t.query) < 2
       THEN /\ suggestions' = <<>>
            /\ showSuggestions' = FALSE
            /\ UNCHANGED <<loadingSuggestions, inflight, fetched>>
       ELSE /\ loadingSuggestions' = TRUE
            /\ inflight' = inflight \cup {[query |-> t.query, change |-> t.change]}
            /\ fetched' = Append(fetched, [query |-> t.query, at |-> now,
                                           since |-> t.set, change |-> t.change,
                                           by |-> t.by])
            /\ UNCHANGED <<suggestions, showSuggestions>>
    /\ event' = "timer"
    /\ UNCHANGED <<filterVars, searchQuery, changes, changedAt, burst, picked>>
    /\ UNCHANGED <<page, timeVars, groupVars, syncVars, now, ctlVars, cacheVars>>

TimerFires ==
    \E t \in timers : TimerFire(t)

\* what getDocumentSuggestions can deliver: documents, none, or a failure
SuggestionResults == {"found", "none", "failed"}

\* fetchSuggestions from its await on, for request r receiving res; the
\* documents found for a query are written as the query itself
Respond(r, res) ==
    /\ inflight' = inflight \ {r}
    /\ IF res = "found"
       THEN suggestions' = <<r.query>> /\ showSuggestions' = TRUE
       ELSE suggestions' = <<>> /\ showSuggestions' = FALSE
    /\ loadingSuggestions' = FALSE
    /\ event' = "response"
    /\ UNCHANGED <<filterVars, searchQuery, timers, changes, changedAt, burst, fetched, picked>>
    /\ UNCHANGED <<page, timeVars, groupVars, syncVars, now, ctlVars, cacheVars>>

Responds ==
    \E r \in inflight, res \in SuggestionResults : Respond(r, res)

\* handleSelectSuggestion leaving the panel as it is
HandleSelectSuggestionKeepsPanel(doc) ==
    /\ showSuggestions /\ suggestions # <<>>
    /\ ~TimerDue
    /\ doc.document_name # searchQuery => changes < MaxChanges
    /\ searchQuery' = doc.document_name
    /\ filterType' = "all"
    /\ filteredDocuments' = FilteredDocuments(documents, "all", doc.document_name)
    /\ IF doc.document_name # searchQuery
       THEN /\ timers' = {t \in timers : t.change # changes}
                            \cup {NewTimer(doc.document_name, changes + 1, "select")}
            /\ NoteChange
       ELSE UNCHANGED <<timers, changes, changedAt, burst>>
    /\ event' = "select"
    /\ picked' = TRUE
    /\ UNCHANGED <<documents, inflight, loadingSuggestions, fetched, suggestions, showSuggestions>>
    /\ UNCHANGED <<page, timeVars, groupVars, syncVars, now, ctlVars, cacheVars>>

\* handleSelectSuggestion(doc), a click on a row of the panel, which is
\* rendered while showSuggestions holds and there are suggestions; the
\* renders and the effect on [searchQuery] follow as for a typed change, the
\* effect running only when the name differs from the query
HandleSelectSuggestion(doc) ==
    /\ showSuggestions /\ suggestions # <<>>
    /\ ~TimerDue
    /\ doc.document_name # searchQuery => changes < MaxChanges
    /\ searchQuery' = doc.document_name
    /\ showSuggestions' = FALSE
    /\ suggestions' = <<>>
    /\ filterType' = "all"
    /\ filteredDocuments' = FilteredDocuments(documents, "all", doc.document_name)
    /\ IF doc.document_name # searchQuery
       THEN /\ timers' = {t \in timers : t.change # changes}
                            \cup {NewTimer(doc.document_name, changes + 1, "select")}
            /\ NoteChange
       ELSE UNCHANGED <<timers, changes, changedAt, burst>>
    /\ event' = "select"
    /\ picked' = TRUE
    /\ UNCHANGED <<documents, inflight, loadingSuggestions, fetched>>
    /\ UNCHANGED <<page, timeVars, groupVars, syncVars, now, ctlVars, cacheVars>>

\* the documents a suggestion row can stand for
SelectSuggestion ==
    \E doc \in SuggestedDocs : HandleSelectSuggestion(doc)

\* handleClickOutside for a mousedown outside the search box and the panel;
\* suggestionsRef.current is the panel while it is rendered, else null
HandleClickOutside ==
    /\ showSuggestions' = IF showSuggestions /\ suggestions # <<>> THEN FALSE ELSE showSuggestions
    /\ event' = "outside"
    /\ UNCHANGED <<filterVars, searchQuery, timers, inflight, suggestions, loadingSuggestions,
                   changes, changedAt, burst, fetched, picked>>
    /\ UNCHANGED <<page, timeVars, groupVars, syncVars, now, ctlVars, cacheVars>>

\* onFocus of the search box
FocusSearch ==
    /\ documents # <<>>
    /\ showSuggestions' = IF suggestions # <<>> THEN TRUE ELSE showSuggestions
    /\ event' = "focus"
    /\ UNCHANGED <<filterVars, searchQuery, timers, inflight, suggestions, loadingSuggestions,
                   changes, changedAt, burst, fetched, picked>>
    /\ UNCHANGED <<page, timeVars, groupVars, syncVars, now, ctlVars, cacheVars>>

\* 50 ms passing
SuggestTick ==
    /\ now < StartTime + MaxClock
    /\ ~TimerDue
    /\ now' = now + 1
    /\ event' = "tick"
    /\ UNCHANGED <<filterVars, searchQuery, timers, inflight, suggestions, showSuggestions,
                   loadingSuggestions, changes, changedAt, burst, fetched, picked>>
    /\ UNCHANGED <<page, timeVars, groupVars, syncVars, ctlVars, cacheVars>>

\* ----------------------------- the documents page: the other handlers
\* the effect that follows a load: setDocuments(cachedDocs), and the render
\* it causes; a load delivers any list, so the loads into an empty page
\* already produce every list a later reload could
SetDocuments(ds) ==
    /\ documents = <<>>
    /\ documents' = MakeDocuments(ds)
    /\ filteredDocuments' = FilteredDocuments(documents', filterType, searchQuery)
    /\ UNCHANGED <<filterType, searchQuery, suggestVars>>
    /\ UNCHANGED <<page, timeVars, groupVars, syncVars, now, ctlVars, cacheVars>>

LoadDocuments ==
    \E ds \in DocLists : SetDocuments(ds)

\* onChange of the filter selector: setFilterType(ft)
SetFilterType(ft) ==
    /\ ft # filterType
    /\ filterType' = ft
    /\ filteredDocuments' = FilteredDocuments(documents, ft, searchQuery)
    /\ UNCHANGED <<documents, searchQuery, suggestVars>>
    /\ UNCHANGED <<page, timeVars, groupVars, syncVars, now, ctlVars, cacheVars>>

SelectFilter ==
    \E ft \in FilterTypes : SetFilterType(ft)

\* handleDelete after a successful delete: setDocuments(docs.filter(...))
DeleteDocument(i) ==
    /\ documents' = SelectSeq(documents, LAMBDA d : d.id # documents[i].id)
    /\ filteredDocuments' = FilteredDocuments(documents', filterType, searchQuery)
    /\ UNCHANGED <<filterType, searchQuery, suggestVars>>
    /\ UNCHANGED <<page, timeVars, groupVars, syncVars, now, ctlVars, cacheVars>>

DeleteAnyDocument ==
    \E i \in 1..Len(documents) : DeleteDocument(i)

\* ------------------- the documents page: the list and the backend's copy
\* The page calls the hook's fetchData at mount and refresh() afterwards
\* (fetchData(true)): no call of it is served from the hook's cache.
\* the document with id i, and the list of the stored documents in id order
SyncDoc(i) ==
    [id |-> i, document_name |-> Passport.document_name,
     notes |-> Passport.notes, document_type |-> Passport.document_type]
RECURSIVE ListOf(_)
ListOf(ids) ==
    IF ids = {} THEN <<>>
    ELSE LET m == CHOOSE x \in ids : \A y \in ids : x <= y
         IN  <<SyncDoc(m)>> \o ListOf(ids \ {m})
IdsOf(list) == {list[i].id : i \in 1..Len(list)}

\* the effect on [cachedDocs, cacheLoading], run after a render in which one
\* of the two has changed: `if (cachedDocs) setDocuments(cachedDocs)`
ListAfterEffect(changed, cached) ==
    IF changed /\ cached # Null THEN cached ELSE documents

\* fetchData(true) up to its await, as call number n: setLoading(true), and
\* the effect if that changed the flag
StartFetch(n) ==
    /\ cacheLoading' = TRUE
    /\ fetches' = fetches \cup {[n |-> n, read |-> FALSE, result |-> {}]}
    /\ documents' = ListAfterEffect(~cacheLoading, cachedDocs)
    /\ filteredDocuments' = FilteredDocuments(documents', filterType, searchQuery)
    /\ UNCHANGED cachedDocs

\* handleSubmit from the backend's insert on: addDocument succeeds and
\* loadDocuments() calls refreshDocs()
AddDocument ==
    /\ added < MaxAdded
    /\ added' = added + 1
    /\ server' = server \cup {added + 1}
    /\ StartFetch(added + 1)
    /\ UNCHANGED <<deletes, removed>>
    /\ UNCHANGED <<filterType, searchQuery, suggestVars>>
    /\ UNCHANGED <<page, timeVars, groupVars, now, ctlVars, cacheVars>>

\* the backend answering getAllDocuments for call f: it reads what is stored
ServerRead(f) ==
    /\ ~f.read
    /\ fetches' = (fetches \ {f}) \cup {[f EXCEPT !.read = TRUE, !.result = server]}
    /\ UNCHANGED <<server, cachedDocs, cacheLoading, deletes, removed, added>>
    /\ UNCHANGED <<filterVars, searchQuery, suggestVars>>
    /\ UNCHANGED <<page, timeVars, groupVars, now, ctlVars, cacheVars>>

ServerReads ==
    \E f \in fetches : ServerRead(f)

\* fetchData from its await on, for call f: on success setData(result.data)
\* and setLoading(false), on failure setError and setLoading(false); then
\* the effect of the page
FetchResolve(f, ok) ==
    /\ f.read
    /\ fetches' = fetches \ {f}
    /\ cacheLoading' = FALSE
    /\ cachedDocs' = IF ok THEN ListOf(f.result) ELSE cachedDocs
    /\ documents' = ListAfterEffect(ok \/ cacheLoading, cachedDocs')
    /\ filteredDocuments' = FilteredDocuments(documents', filterType, searchQuery)
    /\ UNCHANGED <<server, deletes, removed, added>>
    /\ UNCHANGED <<filterType, searchQuery, suggestVars>>
    /\ UNCHANGED <<page, timeVars, groupVars, now, ctlVars, cacheVars>>

FetchResolves ==
    \E f \in fetches, ok \in BOOLEAN : FetchResolve(f, ok)

\* handleDelete up to its await, for a document of the list, and the
\* backend performing the delete or refusing it; the dialog allows one
\* delete at a time
HandleDelete(d, ok) ==
    /\ deletes = {}
    /\ d \in IdsOf(documents)
    /\ deletes' = {[id |-> d, ok |-> ok]}
    /\ server' = IF ok THEN server \ {d} ELSE server
    /\ UNCHANGED <<cachedDocs, cacheLoading, fetches, removed, added>>
    /\ UNCHANGED <<filterVars, searchQuery, suggestVars>>
    /\ UNCHANGED <<page, timeVars, groupVars, now, ctlVars, cacheVars>>

DeleteStarts ==
    \E d \in IdsOf(documents), ok \in BOOLEAN : HandleDelete(d, ok)

\* handleDelete from its await on: setDocuments(docs => docs.filter(...))
\* when the delete succeeded
DeleteResolve(x) ==
    /\ deletes' = deletes \ {x}
    /\ documents' = IF x.ok THEN SelectSeq(documents, LAMBDA doc : doc.id # x.id) ELSE documents
    /\ removed' = IF x.ok THEN removed \cup {x.id} ELSE removed
    /\ filteredDocuments' = FilteredDocuments(documents', filterType, searchQuery)
    /\ UNCHANGED <<server, cachedDocs, cacheLoading, fetches, added>>
    /\ UNCHANGED <<filterType, searchQuery, suggestVars>>
    /\ UNCHANGED <<page, timeVars, groupVars, now, ctlVars, cacheVars>>

DeleteResolves ==
    \E x \in deletes : DeleteResolve(x)

\* ------------------------------------------------------- specifications
InitCtl ==
    /\ data = Null
    /\ loading = TRUE
    /\ error = Null
    /\ lastFetchTime = 0
    /\ cachedData = Null
    /\ mounted = FALSE
    /\ calls = <<>>
    /\ invalidations = 0

InitCache ==
    /\ cache = EmptyMap
    /\ timestamps = EmptyMap
    /\ lastOp = Op("new", Null, Undefined, 0, Undefined)
    /\ prevOp = Op("new", Null, Undefined, 0, Undefined)
    /\ lastSet = [k \in Keys |-> NeverSet]

\* a page before its first render, holding no record
InitPageIdle ==
    /\ page = "items"
    /\ records = <<>>
    /\ recordsId = 0
    /\ wall = WallStart
    /\ memo = NoMemo
    /\ shown = NotShown

\* the backend side of the documents page while it is not observed
InitSyncIdle ==
    /\ server = {}
    /\ cachedDocs = Null
    /\ cacheLoading = TRUE
    /\ fetches = {}
    /\ deletes = {}
    /\ removed = {}
    /\ added = 0

\* the views of a page before any data has arrived
InitViewIdle ==
    /\ listing = <<>>
    /\ grouped = <<>>
    /\ documents = <<>>
    /\ filterType = "all"
    /\ filteredDocuments = <<>>
    /\ searchQuery = <<>>
    /\ timers = {}
    /\ inflight = {}
    /\ suggestions = <<>>
    /\ showSuggestions = FALSE
    /\ loadingSuggestions = FALSE
    /\ changes = 0
    /\ changedAt = StartTime
    /\ burst = 0
    /\ fetched = <<>>
    /\ event = "none"
    /\ picked = FALSE
    /\ InitSyncIdle

Init ==
    /\ InitCtl
    /\ InitCache
    /\ InitPageIdle
    /\ InitViewIdle
    /\ now = StartTime

\* the controller
Next ==
    \/ Mount
    \/ Refetch
    \/ Refresh
    \/ InvalidateCache
    \/ Settle
    \/ Tick

Spec == Init /\ [][Next]_vars

\* the store
CacheNext ==
    \/ CacheSetAny
    \/ CacheGetAny
    \/ CacheInvalidateAny
    \/ CacheClear
    \/ CacheTick

CacheSpec == Init /\ [][CacheNext]_vars

\* either page before its first render, holding any list of records
PageInit ==
    /\ InitCtl
    /\ InitCache
    /\ now = StartTime
    /\ page \in {"items", "docs"}
    /\ records \in {MakeRecords(cs) : cs \in RecordLists}
    /\ recordsId = 0
    /\ wall = WallStart
    /\ memo = NoMemo
    /\ shown = NotShown
    /\ InitViewIdle

PageNext ==
    \/ Render
    \/ RemoveAny
    \/ PassMinute

PageSpec == PageInit /\ [][PageNext]_vars

\* the category view of the items page or the type view of the documents
\* page, mounted with no record loaded yet
GroupInit ==
    /\ InitCtl
    /\ InitCache
    /\ now = StartTime
    /\ page \in {"items", "docs"}
    /\ records = <<>>
    /\ recordsId = 0
    /\ wall = WallStart
    /\ memo = NoMemo
    /\ shown = NotShown
    /\ InitViewIdle

GroupNext ==
    \/ LoadListing
    \/ DeleteAnyListed

GroupSpec == GroupInit /\ [][GroupNext]_vars

\* the documents page mounted and holding the documents ds: the search box
\* empty and the timeout of the first effect run pending
DocsMounted(ds) ==
    /\ InitCtl
    /\ InitCache
    /\ now = StartTime
    /\ page = "docs"
    /\ records = <<>>
    /\ recordsId = 0
    /\ wall = WallStart
    /\ memo = NoMemo
    /\ shown = NotShown
    /\ listing = <<>>
    /\ grouped = <<>>
    /\ documents = MakeDocuments(ds)
    /\ filterType = "all"
    /\ filteredDocuments = MakeDocuments(ds)
    /\ searchQuery = <<>>
    /\ timers = {NewTimer(<<>>, 0, "mount")}
    /\ inflight = {}
    /\ suggestions = <<>>
    /\ showSuggestions = FALSE
    /\ loadingSuggestions = FALSE
    /\ changes = 0
    /\ changedAt = StartTime
    /\ burst = 0
    /\ fetched = <<>>
    /\ event = "mount"
    /\ picked = FALSE
    /\ InitSyncIdle

\* no document loaded yet
DocsInit == DocsMounted(<<>>)

\* the documents loaded, so that the search box is rendered
SuggestInit == DocsMounted(<<CarKeys, Passport>>)

\* the documents page: its list, the filter and the search
FilterNext ==
    \/ LoadDocuments
    \/ TypeQuery
    \/ SelectFilter
    \/ DeleteAnyDocument

FilterSpec == DocsInit /\ [][FilterNext]_vars

\* the documents page: the search box and its suggestions
SuggestNext ==
    \/ TypeQuery
    \/ TimerFires
    \/ Responds
    \/ SelectSuggestion
    \/ HandleClickOutside
    \/ FocusSearch
    \/ SuggestTick

SuggestSpec == SuggestInit /\ [][SuggestNext]_vars

\* the documents page mounted, its first fetch in flight, any documents
\* already stored
SyncInit ==
    /\ InitCtl
    /\ InitCache
    /\ now = StartTime
    /\ page = "docs"
    /\ records = <<>>
    /\ recordsId = 0
    /\ wall = WallStart
    /\ memo = NoMemo
    /\ shown = NotShown
    /\ listing = <<>>
    /\ grouped = <<>>
    /\ documents = <<>>
    /\ filterType = "all"
    /\ filteredDocuments = <<>>
    /\ searchQuery = <<>>
    /\ timers = {NewTimer(<<>>, 0, "mount")}
    /\ inflight = {}
    /\ suggestions = <<>>
    /\ showSuggestions = FALSE
    /\ loadingSuggestions = FALSE
    /\ changes = 0
    /\ changedAt = StartTime
    /\ burst = 0
    /\ fetched = <<>>
    /\ event = "mount"
    /\ picked = FALSE
    /\ added \in 0..1
    /\ server = 1..added
    /\ cachedDocs = Null
    /\ cacheLoading = TRUE
    /\ fetches = {[n |-> 0, read |-> FALSE, result |-> {}]}
    /\ deletes = {}
    /\ removed = {}

\* the documents page: adding, deleting and reloading documents
SyncNext ==
    \/ AddDocument
    \/ ServerReads
    \/ FetchResolves
    \/ DeleteStarts
    \/ DeleteResolves

SyncSpec == SyncInit /\ [][SyncNext]_vars

\* ------------------------------------------------------------ properties
\* call i is an underlying (network) call
Net(i) == calls[i].status # "hit"

\* this step invokes fetchData: the new call is the last of calls'
Invokes == Len(calls') = Len(calls) + 1

\* this step is the resolution of pending call i
ResolvesNow(i) == calls[i].status = "pending" /\ calls'[i].status # "pending"

\* C1: a fetch(force=false) invoked while a cached value exists whose age is
\* below cacheTime returns that value, issues no underlying call and leaves
\* the cached value and its timestamp as they were.
C1_FreshFetchServedFromCache ==
    [][(/\ Invokes
        /\ ~calls'[Len(calls')].force
        /\ cachedData \in Data
        /\ now - lastFetchTime < cacheTime)
       => (/\ calls'[Len(calls')].status = "hit"
           /\ calls'[Len(calls')].ret = cachedData
           /\ cachedData' = cachedData
           /\ lastFetchTime' = lastFetchTime)]_vars

\* a fetch(false) was served from a cache filled at an earlier clock value
C1_Witness ==
    \E i \in 1..Len(calls) :
        /\ calls[i].status = "hit"
        /\ ~calls[i].force
        /\ calls[i].at > lastFetchTime
        /\ calls[i].ret = cachedData

\* C2: two fetch(force=false) invocations within cacheTime of each other, with
\* no invalidateCache and no refresh between them, issue at most one
\* underlying call in total and return the same data, also when the second
\* is invoked before the first has resolved.
C2_FetchIdempotent ==
    \A i \in 1..Len(calls) : \A j \in 1..Len(calls) :
        (/\ i < j
         /\ ~calls[i].force
         /\ ~calls[j].force
         /\ calls[j].at - calls[i].at < cacheTime
         /\ calls[i].inv = calls[j].inv
         /\ \A k \in 1..Len(calls) : (i < k /\ k < j) => ~calls[k].force)
        => (/\ ~(Net(i) /\ Net(j))
            /\ (calls[i].status # "pending" /\ calls[j].status # "pending")
                   => calls[i].ret = calls[j].ret)

\* C3 as stated: refresh() always issues a new underlying call and (whenever
\* that call ends) updates the stored timestamp.
C3_RefreshAlwaysUpdatesTimestamp ==
    [][/\ (Invokes /\ calls'[Len(calls')].force)
             => calls'[Len(calls')].status = "pending"
       /\ \A i \in 1..Len(calls) :
             (calls[i].force /\ ResolvesNow(i)) => lastFetchTime' = calls[i].at]_vars

\* C3 amended: refresh() always issues a new underlying call, whatever the
\* freshness of the cached value; when that call succeeds the stored
\* timestamp becomes the time at which the refresh was invoked.
C3_RefreshIssuesCall ==
    [][/\ (Invokes /\ calls'[Len(calls')].force)
             => calls'[Len(calls')].status = "pending"
       /\ \A i \in 1..Len(calls) :
             (calls[i].force /\ ResolvesNow(i) /\ calls'[i].status = "ok")
                 => lastFetchTime' = calls[i].at]_vars

\* a refresh invoked over a fresh cached value has gone to the network,
\* succeeded and moved the timestamp forward to its own invocation time
C3_Witness ==
    \E i \in 1..Len(calls) : \E j \in 1..Len(calls) :
        /\ i < j
        /\ calls[i].status = "ok"
        /\ calls[j].force
        /\ calls[j].fresh
        /\ calls[j].status = "ok"
        /\ calls[j].at > calls[i].at
        /\ lastFetchTime = calls[j].at

\* C4: the first fetch(false) invoked after an invalidateCache() issues a new
\* underlying call, whatever happened to other pending calls in between.
C4_FetchAfterInvalidateIssuesCall ==
    \A j \in 1..Len(calls) :
        (/\ ~calls[j].force
         /\ calls[j].inv > (IF j = 1 THEN 0 ELSE calls[j - 1].inv))
        => Net(j)

\* C5: when the underlying operation signals failure or throws, the
\* controller records a string error message, ends with loading=false and
\* leaves the cached value, its timestamp and the exposed data alone.
C5_FailureKeepsCache ==
    [][\A i \in 1..Len(calls) :
          (ResolvesNow(i) /\ calls'[i].status # "ok")
          => (/\ error' \notin {Null, Undefined}
              /\ loading' = FALSE
              /\ UNCHANGED <<cachedData, lastFetchTime, data>>)]_vars

\* C6: invalidateCache() clears the cached slot and resets its timestamp,
\* issues no underlying call and leaves {data, loading, error} unchanged.
C6_InvalidateFrame ==
    [][invalidations' # invalidations
       => (/\ cachedData' = Null
           /\ lastFetchTime' = 0
           /\ UNCHANGED <<data, loading, error, calls>>)]_vars

\* the cache was invalidated while a value was cached and exposed: the slot
\* is empty, its timestamp reset, the exposed data still there
C6_Witness ==
    /\ invalidations > 0
    /\ cachedData = Null
    /\ lastFetchTime = 0
    /\ data \in Data
    /\ \E i \in 1..Len(calls) : calls[i].status = "ok" /\ calls[i].inv < invalidations

\* C7: a response of an earlier-issued call that arrives after the response
\* of a later-issued call is discarded: data, the cached value and the
\* stored timestamp stay those of the later call.
C7_SupersededResponseDiscarded ==
    [][\A i \in 1..Len(calls) :
          (ResolvesNow(i) /\ \E j \in 1..Len(calls) : j > i /\ calls[j].status = "ok")
          => UNCHANGED <<data, cachedData, lastFetchTime>>]_vars

\* C8: every fetch/refresh resolves, never rejects: to the fetched data on
\* success, to null with a non-null error message on failure.
C8_NeverRejects ==
    [][\A i \in 1..Len(calls) :
          ResolvesNow(i)
          => \/ calls'[i].status = "ok" /\ calls'[i].ret \in Data /\ data' = calls'[i].ret
             \/ calls'[i].status = "failed" /\ calls'[i].ret = Null
                    /\ error' \notin {Null, Undefined}]_vars

\* C9: the controller starts with loading=true and its mount issues the
\* initial fetch; a fetch that leaves Loading does so with loading=false,
\* either Fresh (data set) or Failed (error set).
C9_LoadingEndsFreshOrFailed ==
    [][/\ (~mounted /\ mounted')
             => (loading /\ loading' /\ Len(calls') = 1 /\ calls'[1].status = "pending")
       /\ \A i \in 1..Len(calls) :
             ResolvesNow(i)
             => (/\ loading' = FALSE
                 /\ \/ data' \in Data /\ calls'[i].status = "ok"
                    \/ error' \notin {Null, Undefined})]_vars

\* C10: get(key) immediately after set(key, value, ttl) with ttl > 0 (no
\* clock tick and no other operation between them) returns value.
C10_GetAfterSet ==
    (/\ prevOp.op = "set"
     /\ prevOp.ttl > 0
     /\ lastOp.op = "get"
     /\ lastOp.key = prevOp.key)
    => lastOp.ret = prevOp.value

\* after the clock has advanced, a get has just followed a set with ttl > 0
\* of the same key and returned the value set
C10_Witness ==
    /\ prevOp.op = "set"
    /\ prevOp.ttl > 0
    /\ lastOp.op = "get"
    /\ lastOp.key = prevOp.key
    /\ lastOp.ret = prevOp.value
    /\ now > StartTime
    /\ MapHas(cache, lastOp.key)

\* this step is a call of get
GetStep == lastOp'.op = "get" /\ prevOp' = lastOp

\* C11 as stated: after set(key, value, ttl=0), get(key) returns absent, also
\* when no time has elapsed since the set, and the entry is removed.
C11_ZeroTtlAbsentAtOnce ==
    (/\ prevOp.op = "set"
     /\ prevOp.ttl = 0
     /\ lastOp.op = "get"
     /\ lastOp.key = prevOp.key)
    => (/\ lastOp.ret = Null
        /\ ~MapHas(cache, lastOp.key)
        /\ ~MapHas(timestamps, lastOp.key))

\* C11 amended: after set(key, value, ttl=0), a get(key) made once the clock
\* has advanced returns absent and removes the entry; a get(key) made at the
\* clock value of the set still returns value.
C11_ZeroTtlAbsentAfterTick ==
    /\ (/\ lastOp.op = "get"
        /\ lastSet[lastOp.key].ttl = 0
        /\ now > lastSet[lastOp.key].at)
       => (/\ lastOp.ret = Null
           /\ ~MapHas(cache, lastOp.key)
           /\ ~MapHas(timestamps, lastOp.key))
    /\ (/\ prevOp.op = "set"
        /\ prevOp.ttl = 0
        /\ lastOp.op = "get"
        /\ lastOp.key = prevOp.key)
       => lastOp.ret = prevOp.value

\* a get has just found an entry set with ttl=0 at an earlier clock value
C11_Witness ==
    /\ lastOp.op = "get"
    /\ prevOp.op = "tick"
    /\ lastSet[lastOp.key].ttl = 0
    /\ now = lastSet[lastOp.key].at + 1
    /\ lastOp.ret = Null
    /\ ~MapHas(cache, lastOp.key)

\* C12: get(key) returns the stored value exactly when now <= expiresAt; past
\* expiresAt it returns absent and evicts the value and its expiry, and a
\* get of an absent key returns absent and leaves it absent (so every later
\* get stays absent until the next set).
C12_GetByExpiry ==
    [][GetStep
       => LET k == lastOp'.key IN
          /\ (MapHas(timestamps, k) /\ now <= timestamps[k])
                => (lastOp'.ret = cache[k] /\ UNCHANGED <<cache, timestamps>>)
          /\ (MapHas(timestamps, k) /\ now > timestamps[k])
                => (lastOp'.ret = Null /\ ~MapHas(cache', k) /\ ~MapHas(timestamps', k))
          /\ ~MapHas(timestamps, k)
                => (lastOp'.ret = Null /\ ~MapHas(cache', k) /\ ~MapHas(timestamps', k))]_vars

\* an entry with ttl > 0 was evicted by a get past its expiry, and the get
\* after that one found the key still absent
C12_Witness ==
    /\ lastOp.op = "get"
    /\ prevOp.op = "get"
    /\ lastOp.key = prevOp.key
    /\ lastOp.ret = Null
    /\ lastSet[lastOp.key].ttl > 0
    /\ now > lastSet[lastOp.key].at + lastSet[lastOp.key].ttl
    /\ ~MapHas(timestamps, lastOp.key)

\* the page has rendered the list it holds now
ShownCurrent == shown.id = recordsId

\* the places <<group, position>> of the timeline view on screen
Places == {pl \in (1..Len(shown.timeline)) \X (1..MaxRecords + 1) :
              pl[2] <= Len(shown.timeline[pl[1]].items)}
LabelIndex(label) == CHOOSE n \in 1..4 : <<"Today", "Yesterday", "Last 7 Days", "Earlier">>[n] = label

\* C13: every record of the list appears in exactly one emitted timeline
\* group, exactly once; nothing else appears; the groups are non-empty and
\* come in the order Today, Yesterday, Last 7 Days, Earlier.
C13_TimelinePartition ==
    ShownCurrent =>
        /\ \A i \in 1..Len(records) :
              Cardinality({pl \in Places : shown.timeline[pl[1]].items[pl[2]] = records[i]}) = 1
        /\ Cardinality(Places) = Len(records)
        /\ \A a \in 1..Len(shown.timeline) :
              /\ Len(shown.timeline[a].items) > 0
              /\ shown.timeline[a].groupName \in {"Today", "Yesterday", "Last 7 Days", "Earlier"}
        /\ \A a \in 1..Len(shown.timeline) : \A b \in 1..Len(shown.timeline) :
              a < b => LabelIndex(shown.timeline[a].groupName) < LabelIndex(shown.timeline[b].groupName)

\* records created today, yesterday and 8 days ago are on screen as the
\* groups Today, Yesterday, Earlier, one record each
C13_Witness ==
    /\ ShownCurrent
    /\ Len(records) = 3
    /\ Len(shown.timeline) = 3
    /\ shown.timeline[1].groupName = "Today" /\ Len(shown.timeline[1].items) = 1
    /\ shown.timeline[2].groupName = "Yesterday" /\ Len(shown.timeline[2].items) = 1
    /\ shown.timeline[3].groupName = "Earlier" /\ Len(shown.timeline[3].items) = 1

\* the label the classification rule gives a calendar date on a current day
ClaimedLabel(date, today) ==
    IF date = today THEN "Today"
    ELSE IF date = today - 1 THEN "Yesterday"
    ELSE IF today - 7 <= date /\ date < today THEN "Last 7 Days"
    ELSE "Earlier"

\* C14: a record is labelled Today iff its calendar date is today, Yesterday
\* iff it is today - 1, Last 7 Days iff today - 7 <= date < today and it is
\* not yesterday, Earlier in every other case (memo.at is the wall clock the
\* labels were computed at).
C14_TimelineLabels ==
    \A a \in 1..Len(memo.groups) : \A b \in 1..Len(memo.groups[a].items) :
        memo.groups[a].groupName
            = ClaimedLabel(DayOf(memo.groups[a].items[b].created), DayOf(memo.at))

\* C15: what a render shows is bucketed by the calendar day of that render:
\* each record on screen is under the label getTimelineGroup gives it at the
\* wall clock of the render.
C15_BucketsOfRenderDay ==
    ShownCurrent =>
        \A a \in 1..Len(shown.timeline) : \A b \in 1..Len(shown.timeline[a].items) :
            shown.timeline[a].groupName
                = GetTimelineGroup(shown.timeline[a].items[b].created, shown.at)

\* C18: on both pages a record is flagged recently added exactly when
\* now - createdAt <= 5 minutes.
C18_RecentWithinFiveMinutes ==
    ShownCurrent =>
        \A i \in 1..Len(records) :
            (records[i].id \in shown.recent) <=> (shown.at - records[i].created <= 5)

\* a is at or before b in the case-insensitive order of names
CaseInsensitiveLeq(a, b) ==
    LET la == ToLowerCase(a)
        lb == ToLowerCase(b)
    IN  \/ Len(la) <= Len(lb) /\ la = SubSeq(lb, 1, Len(la))
        \/ \E k \in 1..Len(la) :
              /\ k <= Len(lb)
              /\ SubSeq(la, 1, k - 1) = SubSeq(lb, 1, k - 1)
              /\ Weight(la[k]) < Weight(lb[k])

\* the key the grouping rule gives a field: the trimmed value, or the
\* sentinel of the page when the field is blank or absent
ClaimedKey(p, f) ==
    IF f.kind # "string" \/ Trim(f.text) = <<>>
    THEN (IF p = "items" THEN Uncategorized ELSE Other)
    ELSE Trim(f.text)

\* the groups that hold the record with this id
GroupsOf(id) ==
    {g \in 1..Len(grouped) : \E j \in 1..Len(grouped[g].ids) : grouped[g].ids[j] = id}

\* C16: on both pages every record is in the one group whose name is its
\* field trimmed, or the sentinel when the field is blank or absent; names
\* are compared literally.
C16_GroupKeyTrimmedOrSentinel ==
    \A i \in 1..Len(listing) :
        /\ Cardinality(GroupsOf(listing[i].id)) = 1
        /\ \A g \in GroupsOf(listing[i].id) :
              grouped[g].name = ClaimedKey(page, listing[i].category)

\* C17: on both pages the groups are emitted in ascending case-insensitive
\* order of their names.
C17_GroupsAscending ==
    \A g, h \in 1..Len(grouped) :
        g < h => CaseInsensitiveLeq(grouped[g].name, grouped[h].name)

\* q occurs in s when the case of the letters is ignored
SameLetter(c, d) == c = d \/ (IsLetter(c) /\ IsLetter(d) /\ LetterIndex(c) = LetterIndex(d))
OccursIgnoringCase(q, s) ==
    \E i \in 0..(Len(s) - Len(q)) :
        \A k \in 1..Len(q) : SameLetter(q[k], s[i + k])

\* the rule of the visible set
ClaimedVisible(doc) ==
    /\ filterType = "all" \/ doc.document_type = filterType
    /\ \/ searchQuery = <<>>
       \/ OccursIgnoringCase(searchQuery, doc.document_name)
       \/ doc.notes.kind = "string" /\ OccursIgnoringCase(searchQuery, doc.notes.text)

\* C19: the visible documents are exactly those whose type passes the
\* filter ('all' passes every type) and whose name or notes contain the
\* query, case ignored (an empty query passes every document).
C19_VisibleIsTypeAndText ==
    /\ {filteredDocuments[i].id : i \in 1..Len(filteredDocuments)}
         = {documents[i].id : i \in {j \in 1..Len(documents) : ClaimedVisible(documents[j])}}
    /\ \A i \in 1..Len(filteredDocuments) :
          \E j \in 1..Len(documents) : documents[j] = filteredDocuments[i]

\* "Car Keys" with the note "spare" is shown for a query in another case and
\* under a type filter, next to a document that is filtered out
C19_Witness ==
    /\ searchQuery = <<"K", "E", "Y">>
    /\ filterType = "vehicle"
    /\ Len(documents) = 2
    /\ Len(filteredDocuments) = 1
    /\ filteredDocuments[1].document_name = CarKeys.document_name

\* the calls of getDocumentSuggestions made for the latest change
FetchesOfLatest == {i \in 1..Len(fetched) : fetched[i].change = changes}

\* what holds of the fetches whatever the query: a pending timeout is the
\* one of the latest change, a change has at most one fetch, and a fetch is
\* made no earlier than the delay after its change, with the query of it
DebounceFrame ==
    /\ \A t \in timers : t.change = changes
    /\ Cardinality(timers) <= 1
    /\ \A i, j \in 1..Len(fetched) : fetched[i].change = fetched[j].change => i = j
    /\ \A i \in 1..Len(fetched) : fetched[i].at >= fetched[i].since + DebounceDelay
    /\ \A i \in FetchesOfLatest :
          fetched[i].query = searchQuery /\ fetched[i].since = changedAt

\* the burst is over: the query has changed and no timeout is pending
BurstOver == changes > 0 /\ timers = {}

\* C20: a burst of changes, each less than the delay after the previous one,
\* has exactly one fetch, made no earlier than the delay after the last
\* change and with the final query; a change clears the pending timeout.
C20_ExactlyOneFetchPerBurst ==
    /\ DebounceFrame
    /\ BurstOver => Cardinality(FetchesOfLatest) = 1

\* C20, amended: the burst has exactly one fetch when its final query has
\* two characters or more, and none when it is shorter.
C20_OneFetchPerBurstOfLongQuery ==
    /\ DebounceFrame
    /\ BurstOver =>
          Cardinality(FetchesOfLatest) = (IF Len(searchQuery) >= 2 THEN 1 ELSE 0)

\* a burst of two changes or more is over and its fetch has been made
C20_Witness ==
    /\ BurstOver
    /\ burst >= 2
    /\ FetchesOfLatest # {}

\* C21: no fetch is made for a query shorter than 2 characters, and the
\* change that makes the query shorter than 2 characters leaves the
\* suggestion list empty and the panel hidden at once.
C21_ShortQueryClearsAtOnce ==
    [][/\ \A i \in 1..Len(fetched') : Len(fetched'[i].query) >= 2
       /\ (changes' # changes /\ Len(searchQuery') < 2)
             => (suggestions' = <<>> /\ ~showSuggestions')]_vars

\* C22: a response to a fetch made for another query than the present one
\* changes neither the suggestion list nor the visibility of the panel.
C22_StaleResponseDiscarded ==
    [][(/\ event' = "response"
        /\ \E r \in inflight : inflight' = inflight \ {r} /\ r.query # searchQuery)
       => (suggestions' = suggestions /\ showSuggestions' = showSuggestions)]_vars

\* C23: the selection of a suggestion and a pointer event outside the search
\* box and the panel leave the panel closed and the fetches in flight as
\* they were.
C23_ClosingKeepsFetches ==
    [][event' \in {"select", "outside"}
       => (~showSuggestions' /\ inflight' = inflight)]_vars

\* a suggestion has just been selected while a fetch was in flight
C23_Witness ==
    /\ event = "select"
    /\ inflight # {}
    /\ ~showSuggestions

\* C28: from the selection of a suggestion to the next typed change the
\* panel is hidden, and no fetch is made for a change of the query that a
\* selection made.
C28_SelectionKeepsPanelHidden ==
    /\ picked => ~showSuggestions
    /\ \A i \in 1..Len(fetched) : fetched[i].by # "select"

\* C24: after invalidateCache() the cached slot is empty until a fetch
\* invoked after the invalidation has completed successfully: a value in
\* the slot is that of a successful call invoked since the latest
\* invalidation.
C24_InvalidatedSlotStaysEmpty ==
    cachedData # Null
    => \E i \in 1..Len(calls) : calls[i].status = "ok" /\ calls[i].inv = invalidations

\* C25: while an underlying call is in flight the loading flag is true.
C25_PendingImpliesLoading ==
    (\E i \in 1..Len(calls) : calls[i].status = "pending") => loading

\* C26: the state that follows the successful completion of an underlying
\* call has error = null.
C26_SuccessLeavesNoError ==
    [][\A i \in 1..Len(calls) :
          (ResolvesNow(i) /\ calls'[i].status = "ok") => error' = Null]_vars

\* C29: a successful call stores the time of its invocation as the
\* timestamp, and a fetch(false) finding a cached value is served from the
\* cache exactly when its own time is less than cacheTime past that
\* timestamp.
C29_TimestampIsInvocationTime ==
    [][/\ \A i \in 1..Len(calls) :
             (ResolvesNow(i) /\ calls'[i].status = "ok") => lastFetchTime' = calls[i].at
       /\ (Invokes /\ ~calls'[Len(calls')].force /\ cachedData \in Data)
             => (calls'[Len(calls')].status = "hit" <=> now - lastFetchTime < cacheTime)]_vars

\* a call took cacheTime or longer to succeed and the fetch(false) made
\* right after its response was not served from the cache
C29_Witness ==
    /\ Len(calls) = 2
    /\ invalidations = 0
    /\ calls[1].status = "ok"
    /\ lastFetchTime = calls[1].at
    /\ cachedData = calls[1].ret
    /\ ~calls[2].force
    /\ calls[2].status = "pending"
    /\ calls[2].at >= calls[1].at + cacheTime
    /\ data = calls[1].ret

\* C30: the value map and the expiry map of the store hold the same keys.
C30_SameKeys ==
    DOMAIN cache = DOMAIN timestamps

\* a key has just been invalidated while another key is still stored
C30_Witness ==
    /\ lastOp.op = "invalidate"
    /\ ~MapHas(cache, lastOp.key)
    /\ ~MapHas(timestamps, lastOp.key)
    /\ \E k \in Keys : MapHas(cache, k) /\ MapHas(timestamps, k)
    /\ lastSet[lastOp.key] # NeverSet

\* C27: a document that a successful delete has removed from the list is
\* not in the list again, whatever calls of getAllDocuments resolve later.
C27_DeletedNeverReappears ==
    \A d \in removed : d \notin IdsOf(documents)
====
